---- MODULE Spec2Model ----
(***************************************************************************)
(* Recording session manager and render cache of the Cap desktop app       *)
(* (apps/desktop-solid/src-tauri/src/lib.rs).                              *)
(*                                                                         *)
(* The Tauri commands are async functions run concurrently on the tokio    *)
(* runtime.  start_recording and stop_recording hold the write guard of    *)
(* the Arc<RwLock<App>> from their first line to their return, across      *)
(* every .await; get_rendered_video takes no lock at all.  Each command is *)
(* modelled as the sequence of its steps, one action per step, run by one  *)
(* of a small set of callers.                                              *)
(*                                                                         *)
(* recording::start, InProgressRecording::stop and render_video live in    *)
(* modules that are declared in lib.rs (mod recording; mod video_renderer) *)
(* but whose bodies are not part of the sources at hand; their effect is   *)
(* modelled from the specification and their call sites.                   *)
(***************************************************************************)
EXTENDS Integers, Sequences, FiniteSets, TLC

\* ---------------------------------------------------------------- bounds
MaxDirs == 2
MaxPrev == 1
NumProjects == 2

\* the concurrent callers of the commands (the webview's windows)
Callers == {"c1", "c2"}
Dirs == 1..MaxDirs
Projects == 1..NumProjects

\* ------------------------------------------------------------ data types
\* RecordingOptions { capture_target, camera_label }
CaptureTargets == {"Screen", "Window"}
CameraLabels == {"None", "Some"}
RecordingOptions == [capture_target : CaptureTargets, camera_label : CameraLabels]
\* the options the callers pass to set_recording_options
OptionInputs == {[capture_target |-> "Screen", camera_label |-> "None"],
                 [capture_target |-> "Window", camera_label |-> "Some"]}

\* Option<InProgressRecording>: None, or Some(recording) with the fields
\* lib.rs reads (recording_dir, display_source).  A recording_dir is the
\* id of "<app_data>/recordings/<id>.cap".
NoneRecording == [some |-> FALSE, recording_dir |-> 0, display_source |-> "-"]
SomeRecording(d, src) == [some |-> TRUE, recording_dir |-> d, display_source |-> src]

\* video_dir.join("output/result.mp4")
OutputPath(v) == <<"recordings", v, "cap", "output/result.mp4">>

\* Result<_, String> as seen by the caller; "Panic" is an unwound task: the
\* command never answers.
NoResult == [op |-> "-", kind |-> "-", msg |-> "-", path |-> <<>>]
Ok(o) == [op |-> o, kind |-> "Ok", msg |-> "-", path |-> <<>>]
OkPath(o, pth) == [op |-> o, kind |-> "Ok", msg |-> "-", path |-> pth]
Err(o, m) == [op |-> o, kind |-> "Err", msg |-> m, path |-> <<>>]
Panic(o, m) == [op |-> o, kind |-> "Panic", msg |-> m, path |-> <<>>]

AbsentFile == [st |-> "absent", by |-> 0]
CompleteFile(proj) == [st |-> "complete", by |-> proj]
PartialFile(proj) == [st |-> "partial", by |-> proj]

VARIABLES
    start_recording_options, \* App.start_recording_options
    current_recording,       \* App.current_recording
    prev_recordings,         \* App.prev_recordings
    occluder,                \* the window-capture-occluder window is shown
    lock,                    \* holder of the RwLock write guard, "free" when none
    pc,                      \* each caller's position
    arg,                     \* get_rendered_video's (video_id, project)
    local,                   \* the handler's local recording
    result,                  \* what the caller's last command answered
    dirExists,               \* <recordings>/<id>.cap exists
    meta,                    \* recording-meta.json of each directory
    output,                  \* output/result.mp4 of each directory
    thumb,                   \* the thumbnail extraction was run on the directory
    pipelines,               \* the capture pipelines of each session
    nextId,                  \* the next fresh uuid
    entry,                   \* the App state when the write guard was taken
    lastRender,              \* the last get_rendered_video call that returned
    prior,                   \* the answer of the identical call just before this one
    invoked,                 \* this render call invoked the encoder
    render_options,          \* the RenderOptions handed to render_video
    seen                     \* what the caller's query read from the App

appVars == <<start_recording_options, current_recording, prev_recordings, occluder>>
fsVars == <<dirExists, meta, output, thumb>>
callVars == <<pc, arg, local, result>>
ghostVars == <<entry, lastRender, prior, invoked>>
obsVars == <<render_options, seen>>
vars == <<start_recording_options, current_recording, prev_recordings, occluder,
          lock, pc, arg, local, result, dirExists, meta, output, thumb,
          pipelines, nextId, entry, lastRender, prior, invoked,
          render_options, seen>>

NoEntry == [cur |-> NoneRecording, prev |-> <<>>,
            pipelines |-> [d \in Dirs |-> "none"], thumb |-> [d \in Dirs |-> FALSE]]
NoArg == [video_id |-> 0, project |-> 0]
NoRenderOptions == [output_path |-> <<>>, webcam_size |-> <<0, 0>>, output_size |-> <<0, 0>>]
DefaultOptions == [capture_target |-> "Screen", camera_label |-> "None"]
NoSeen == [cur |-> NoneRecording, prev |-> <<>>, options |-> DefaultOptions]

\* 1..k in ascending order
UpTo(k) == [i \in 1..k |-> i]

\* --------------------------------------------------------------- startup
\* run(): the App is built with the default options, no current recording
\* and prev_recordings = every entry of <recordings> whose extension is
\* "cap".  Directories left by earlier runs hold whatever those runs left.
ScanRecordings(k) == UpTo(k)

Init ==
    \E k \in 0..MaxPrev :
    \E m \in [1..k -> {"ok", "missing", "malformed"}] :
    \E o \in [1..k -> {AbsentFile, CompleteFile(1)}] :
        /\ start_recording_options = DefaultOptions
        /\ current_recording = NoneRecording
        /\ prev_recordings = ScanRecordings(k)
        /\ occluder = FALSE
        /\ lock = "free"
        /\ pc = [p \in Callers |-> "idle"]
        /\ arg = [p \in Callers |-> NoArg]
        /\ local = [p \in Callers |-> NoneRecording]
        /\ result = [p \in Callers |-> NoResult]
        /\ dirExists = [d \in Dirs |-> d <= k]
        /\ meta = [d \in Dirs |-> IF d <= k THEN m[d] ELSE "missing"]
        /\ output = [d \in Dirs |-> IF d <= k THEN o[d] ELSE AbsentFile]
        /\ thumb = [d \in Dirs |-> FALSE]
        /\ pipelines = [d \in Dirs |-> "none"]
        /\ nextId = k + 1
        /\ entry = NoEntry
        /\ lastRender = [arg |-> NoArg, result |-> NoResult]
        /\ prior = [p \in Callers |-> NoResult]
        /\ invoked = [p \in Callers |-> FALSE]
        /\ render_options = [p \in Callers |-> NoRenderOptions]
        /\ seen = [p \in Callers |-> NoSeen]

Snapshot == [cur |-> current_recording, prev |-> prev_recordings,
             pipelines |-> pipelines, thumb |-> thumb]

\* AcquireWrite granted without waiting for the guard to be free
AcquireWrite_NoWait(p) ==
    /\ lock' = p
    /\ entry' = Snapshot

\* Taking the write guard (state.write().await): granted when no other
\* caller holds it.
AcquireWrite(p) ==
    /\ lock = "free"
    /\ lock' = p
    /\ entry' = Snapshot

\* Dropping the write guard: at the return, or while a panic unwinds.
ReleaseWrite ==
    /\ lock' = "free"
    /\ entry' = NoEntry

\* The caller has its answer and is free to send the next command.
Idle(p) ==
    /\ pc' = [pc EXCEPT ![p] = "idle"]
    /\ arg' = [arg EXCEPT ![p] = NoArg]
    /\ local' = [local EXCEPT ![p] = NoneRecording]
    /\ result' = [result EXCEPT ![p] = NoResult]
    /\ prior' = [prior EXCEPT ![p] = NoResult]
    /\ invoked' = [invoked EXCEPT ![p] = FALSE]
    /\ render_options' = [render_options EXCEPT ![p] = NoRenderOptions]
    /\ seen' = [seen EXCEPT ![p] = NoSeen]

\* An unwrap() on Err/None: the command's task unwinds, dropping the guard
\* it holds (a tokio RwLock is not poisoned), and the command never answers.
Unwind(p) ==
    /\ pc[p] = "panicked"
    /\ IF lock = p THEN ReleaseWrite ELSE UNCHANGED <<lock, entry>>
    /\ Idle(p)
    /\ UNCHANGED <<appVars, fsVars, pipelines, nextId, lastRender>>

\* ------------------------------------------------------- start_recording
\* let mut state = state.write().await; let id = Uuid::new_v4()
StartLock(p) ==
    /\ pc[p] = "idle"
    /\ nextId <= MaxDirs
    /\ AcquireWrite(p)
    /\ pc' = [pc EXCEPT ![p] = "start_locked"]
    /\ UNCHANGED <<appVars, fsVars, arg, local, result, pipelines, nextId,
                   lastRender, prior, invoked, obsVars>>

\* DisplaySource chosen by recording::start from the options' capture_target
DisplaySourceOf(options) == options.capture_target

\* recording::start returns an InProgressRecording, not a Result (lib.rs
\* hands its value to set_current_recording as it is).  The pipelines start
\* and run; or one cannot be started, and the function either unwinds or
\* hands back a recording whose pipelines are not running.
StartOutcomes ==
    {[pipelines |-> "running", returns |-> TRUE],
     [pipelines |-> "failed", returns |-> TRUE],
     [pipelines |-> "failed", returns |-> FALSE]}

\* let id = Uuid::new_v4(); let recording_dir = ..join(format!("{id}.cap"));
\* let recording = recording::start(recording_dir, &state.start_recording_options).await;
RecordingStart(p) ==
    /\ pc[p] = "start_locked"
    /\ LET d == nextId
           rec == SomeRecording(d, DisplaySourceOf(start_recording_options))
       IN  /\ nextId' = d + 1
           /\ dirExists' = [dirExists EXCEPT ![d] = TRUE]
           /\ local' = [local EXCEPT ![p] = rec]
           /\ \E o \in StartOutcomes :
                 /\ pipelines' = [pipelines EXCEPT ![d] = o.pipelines]
                 /\ IF o.returns
                      THEN /\ pc' = [pc EXCEPT ![p] = "start_set"]
                           /\ UNCHANGED result
                      ELSE /\ pc' = [pc EXCEPT ![p] = "panicked"]
                           /\ result' = [result EXCEPT ![p] =
                                            Panic("start_recording", "recording::start")]
    /\ UNCHANGED <<appVars, lock, meta, output, thumb, arg, ghostVars, obsVars>>

\* App::set_current_recording: self.current_recording.insert(new_value),
\* then the occluder window is shown for a window capture, closed otherwise.
SetCurrentRecording(new_value) ==
    /\ current_recording' = new_value
    /\ occluder' = (new_value.display_source = "Window")

\* state.set_current_recording(recording); Ok(())
StartSet(p) ==
    /\ pc[p] = "start_set"
    /\ SetCurrentRecording(local[p])
    /\ result' = [result EXCEPT ![p] = Ok("start_recording")]
    /\ pc' = [pc EXCEPT ![p] = "start_ret"]
    /\ UNCHANGED <<start_recording_options, prev_recordings, lock, arg, local,
                   fsVars, pipelines, nextId, ghostVars, obsVars>>

\* the guard is dropped as start_recording returns
StartReturn(p) ==
    /\ pc[p] = "start_ret"
    /\ ReleaseWrite
    /\ Idle(p)
    /\ UNCHANGED <<appVars, fsVars, pipelines, nextId, lastRender>>

\* -------------------------------------------------------- stop_recording
\* let mut state = state.write().await;
\* let ffmpeg_binary_path_str = ffmpeg_path_as_str().unwrap().to_owned();
\* (setup has installed FFmpeg before any command runs, so the path is there)
StopLock(p) ==
    /\ pc[p] = "idle"
    /\ AcquireWrite(p)
    /\ pc' = [pc EXCEPT ![p] = "stop_locked"]
    /\ UNCHANGED <<appVars, fsVars, arg, local, result, pipelines, nextId,
                   lastRender, prior, invoked, obsVars>>

\* StopClear without the let-else's early return: an empty slot is stopped
\* like a recording.
StopClear_NoEarlyReturn(p) ==
    /\ pc[p] = "stop_locked"
    /\ occluder' = FALSE
    /\ current_recording' = NoneRecording
    /\ local' = [local EXCEPT ![p] = current_recording]
    /\ pc' = [pc EXCEPT ![p] = "stop_push"]
    /\ UNCHANGED <<start_recording_options, prev_recordings, lock, arg, result,
                   fsVars, pipelines, nextId, ghostVars, obsVars>>

\* StopClear reading the slot without take()ing it
StopClear_NoTake(p) ==
    /\ pc[p] = "stop_locked"
    /\ occluder' = FALSE
    /\ IF current_recording.some
         THEN /\ local' = [local EXCEPT ![p] = current_recording]
              /\ pc' = [pc EXCEPT ![p] = "stop_stopping"]
              /\ UNCHANGED result
         ELSE /\ result' = [result EXCEPT ![p] = Err("stop_recording", "Recording not in progress")]
              /\ pc' = [pc EXCEPT ![p] = "stop_ret"]
              /\ UNCHANGED local
    /\ UNCHANGED <<start_recording_options, current_recording, prev_recordings, lock,
                   arg, fsVars, pipelines, nextId, ghostVars, obsVars>>

\* let Some(mut current_recording) = state.clear_current_recording() else {
\*     return Err("Recording not in progress".to_string()) };
\* App::clear_current_recording closes the occluder window and take()s the slot.
StopClear(p) ==
    /\ pc[p] = "stop_locked"
    /\ occluder' = FALSE
    /\ current_recording' = NoneRecording
    /\ IF current_recording.some
         THEN /\ local' = [local EXCEPT ![p] = current_recording]
              /\ pc' = [pc EXCEPT ![p] = "stop_stopping"]
              /\ UNCHANGED result
         ELSE /\ result' = [result EXCEPT ![p] = Err("stop_recording", "Recording not in progress")]
              /\ pc' = [pc EXCEPT ![p] = "stop_ret"]
              /\ UNCHANGED local
    /\ UNCHANGED <<start_recording_options, prev_recordings, lock, arg, fsVars,
                   pipelines, nextId, ghostVars, obsVars>>

\* InProgressRecording::stop: the pipelines are stopped (a pipeline's own
\* failure is tolerated) and recording-meta.json is written, or is not when
\* the write fails; the call returns either way.
StopMetaOutcomes == {"ok", "missing"}

\* RecordingStop of a stop() that is spawned and not awaited
RecordingStop_Detached(p) ==
    /\ pc[p] = "stop_stopping"
    /\ pc' = [pc EXCEPT ![p] = "stop_thumb"]
    /\ UNCHANGED <<appVars, lock, arg, local, result, fsVars, pipelines,
                   nextId, ghostVars, obsVars>>

\* current_recording.stop().await
RecordingStop(p) ==
    /\ pc[p] = "stop_stopping"
    /\ LET d == local[p].recording_dir
       IN  /\ pipelines' = [pipelines EXCEPT ![d] = "stopped"]
           /\ \E m \in StopMetaOutcomes : meta' = [meta EXCEPT ![d] = m]
    /\ pc' = [pc EXCEPT ![p] = "stop_thumb"]
    /\ UNCHANGED <<appVars, lock, arg, local, result, dirExists, output, thumb,
                   nextId, ghostVars, obsVars>>

\* Command::output() spawns the process and waits for it to exit, with no
\* timeout: it is Ok when the process ran and exited (whatever its status),
\* Err when the process cannot be run, and it does not return while the
\* process does not exit.
ThumbnailOutcomes == {"exited", "cannot run", "never exits"}

\* create_dir_all(screenshots).ok();
\* Command::new(ffmpeg).args(..).output().unwrap();
StopThumbnail(p) ==
    /\ pc[p] = "stop_thumb"
    /\ \E o \in ThumbnailOutcomes :
          CASE o = "exited" ->
                 /\ thumb' = [thumb EXCEPT ![local[p].recording_dir] = TRUE]
                 /\ pc' = [pc EXCEPT ![p] = "stop_push"]
                 /\ UNCHANGED result
            [] o = "cannot run" ->
                 /\ pc' = [pc EXCEPT ![p] = "panicked"]
                 /\ result' = [result EXCEPT ![p] = Panic("stop_recording", "Command::output")]
                 /\ UNCHANGED thumb
            [] o = "never exits" ->
                 /\ pc' = [pc EXCEPT ![p] = "stop_thumb_wait"]
                 /\ UNCHANGED <<result, thumb>>
    /\ UNCHANGED <<appVars, lock, arg, local, dirExists, meta, output, pipelines,
                   nextId, ghostVars, obsVars>>

\* PushPrev inserting at the front (Vec::insert(0, ..))
PushPrev_Front(prev, d) == <<d>> \o prev

\* PushPrev keeping only the newest directory
PushPrev_Latest(prev, d) == <<d>>

\* Vec::push
PushPrev(prev, d) == Append(prev, d)

\* state.prev_recordings.push(current_recording.recording_dir);
\* ShowCapturesPanel.emit(&app); Ok(())
StopPush(p) ==
    /\ pc[p] = "stop_push"
    /\ prev_recordings' = PushPrev(prev_recordings, local[p].recording_dir)
    /\ result' = [result EXCEPT ![p] = Ok("stop_recording")]
    /\ pc' = [pc EXCEPT ![p] = "stop_ret"]
    /\ UNCHANGED <<start_recording_options, current_recording, occluder, lock,
                   arg, local, fsVars, pipelines, nextId, ghostVars, obsVars>>

\* the guard is dropped as stop_recording returns
StopReturn(p) ==
    /\ pc[p] = "stop_ret"
    /\ ReleaseWrite
    /\ Idle(p)
    /\ UNCHANGED <<appVars, fsVars, pipelines, nextId, lastRender>>

\* ------------------------------------------------- set_recording_options
\* SetRecordingOptions that also re-targets the session being recorded
SetRecordingOptions_Applied(p, options) ==
    /\ pc[p] = "idle"
    /\ lock = "free"
    /\ start_recording_options' = options
    /\ current_recording' =
          IF current_recording.some
            THEN [current_recording EXCEPT !.display_source = DisplaySourceOf(options)]
            ELSE current_recording
    /\ UNCHANGED <<prev_recordings, occluder, lock, callVars,
                   fsVars, pipelines, nextId, ghostVars, obsVars>>

\* state.write().await.set_start_recording_options(options); Ok(())
\* (the guard is a temporary of the statement: taken and dropped in it)
SetRecordingOptions(p, options) ==
    /\ pc[p] = "idle"
    /\ lock = "free"
    /\ start_recording_options' = options
    /\ UNCHANGED <<current_recording, prev_recordings, occluder, lock, callVars,
                   fsVars, pipelines, nextId, ghostVars, obsVars>>

\* ----------------------------------------------------------- the queries
\* let state = state.read().await: granted when no caller holds the write
\* guard; the value is cloned and the read guard dropped before the return.
\* get_current_recording: Ok(JsonValue::new(&state.current_recording))
GetCurrentRecording(p) ==
    /\ pc[p] = "idle"
    /\ lock = "free"
    /\ seen' = [seen EXCEPT ![p] = [NoSeen EXCEPT !.cur = current_recording]]
    /\ result' = [result EXCEPT ![p] = Ok("get_current_recording")]
    /\ pc' = [pc EXCEPT ![p] = "query_ret"]
    /\ UNCHANGED <<appVars, lock, arg, local, fsVars, pipelines, nextId,
                   ghostVars, render_options>>

\* get_prev_recordings: Ok(state.prev_recordings.clone())
GetPrevRecordings(p) ==
    /\ pc[p] = "idle"
    /\ lock = "free"
    /\ seen' = [seen EXCEPT ![p] = [NoSeen EXCEPT !.prev = prev_recordings]]
    /\ result' = [result EXCEPT ![p] = Ok("get_prev_recordings")]
    /\ pc' = [pc EXCEPT ![p] = "query_ret"]
    /\ UNCHANGED <<appVars, lock, arg, local, fsVars, pipelines, nextId,
                   ghostVars, render_options>>

\* get_recording_options: Ok(state.start_recording_options.clone())
GetRecordingOptions(p) ==
    /\ pc[p] = "idle"
    /\ lock = "free"
    /\ seen' = [seen EXCEPT ![p] = [NoSeen EXCEPT !.options = start_recording_options]]
    /\ result' = [result EXCEPT ![p] = Ok("get_recording_options")]
    /\ pc' = [pc EXCEPT ![p] = "query_ret"]
    /\ UNCHANGED <<appVars, lock, arg, local, fsVars, pipelines, nextId,
                   ghostVars, render_options>>

\* the query returns its value to the caller
QueryReturn(p) ==
    /\ pc[p] = "query_ret"
    /\ Idle(p)
    /\ UNCHANGED <<appVars, lock, fsVars, pipelines, nextId, entry, lastRender>>

\* ---------------------------------------------------- get_rendered_video
\* VideoDirExists that never looks: every directory is taken to be there
VideoDirExists_Always(v) == TRUE

\* video_dir.exists()
VideoDirExists(v) == dirExists[v]

\* OutputExists asked of a path nothing is ever written to
OutputExists_WrongPath(v) == FALSE

\* output_path.exists(): true of any file at the path, whole or not
OutputExists(v) == output[v].st # "absent"

\* GetRenderedVideo that first takes state.read().await
GetRenderedVideo_NeedsLock(p, v, proj) ==
    /\ pc[p] = "idle"
    /\ lock = "free"
    /\ arg' = [arg EXCEPT ![p] = [video_id |-> v, project |-> proj]]
    /\ prior' = [prior EXCEPT ![p] = NoResult]
    /\ pc' = [pc EXCEPT ![p] = IF VideoDirExists(v) THEN "grv_out" ELSE "grv_ret"]
    /\ result' = [result EXCEPT ![p] =
                     IF VideoDirExists(v) THEN @
                     ELSE Err("get_rendered_video", "Video directory does not exist")]
    /\ UNCHANGED <<appVars, lock, local, fsVars, pipelines, nextId, entry,
                   lastRender, invoked, obsVars>>

\* let video_dir = ..join(format!("{video_id}.cap")); if video_dir.exists() {..}
\* else { Err(format!("Video directory does not exist: {:?}", video_dir)) }
GetRenderedVideo(p, v, proj) ==
    /\ pc[p] = "idle"
    /\ arg' = [arg EXCEPT ![p] = [video_id |-> v, project |-> proj]]
    /\ prior' = [prior EXCEPT ![p] = IF lastRender.arg = [video_id |-> v, project |-> proj]
                                       THEN lastRender.result ELSE NoResult]
    /\ IF VideoDirExists(v)
         THEN /\ pc' = [pc EXCEPT ![p] = "grv_out"]
              /\ UNCHANGED result
         ELSE /\ pc' = [pc EXCEPT ![p] = "grv_ret"]
              /\ result' = [result EXCEPT ![p] =
                               Err("get_rendered_video", "Video directory does not exist")]
    /\ UNCHANGED <<appVars, lock, local, fsVars, pipelines, nextId, entry,
                   lastRender, invoked, obsVars>>

\* GrvCheckOutput of a cache keyed on the project configuration as well
GrvCheckOutput_KeyedOnProject(p) ==
    /\ pc[p] = "grv_out"
    /\ IF OutputExists(arg[p].video_id) /\ output[arg[p].video_id].by = arg[p].project
         THEN /\ pc' = [pc EXCEPT ![p] = "grv_ret"]
              /\ result' = [result EXCEPT ![p] =
                               OkPath("get_rendered_video", OutputPath(arg[p].video_id))]
         ELSE /\ pc' = [pc EXCEPT ![p] = "grv_meta"]
              /\ UNCHANGED result
    /\ UNCHANGED <<appVars, lock, arg, local, fsVars, pipelines, nextId, ghostVars, obsVars>>

\* if output_path.exists() { Ok(output_path) } else { .. }
GrvCheckOutput(p) ==
    /\ pc[p] = "grv_out"
    /\ IF OutputExists(arg[p].video_id)
         THEN /\ pc' = [pc EXCEPT ![p] = "grv_ret"]
              /\ result' = [result EXCEPT ![p] =
                               OkPath("get_rendered_video", OutputPath(arg[p].video_id))]
         ELSE /\ pc' = [pc EXCEPT ![p] = "grv_meta"]
              /\ UNCHANGED result
    /\ UNCHANGED <<appVars, lock, arg, local, fsVars, pipelines, nextId, ghostVars, obsVars>>

\* let meta: RecordingMeta = serde_json::from_str(
\*     &std::fs::read_to_string(video_dir.join("recording-meta.json")).unwrap()).unwrap();
GrvReadMeta(p) ==
    /\ pc[p] = "grv_meta"
    /\ IF meta[arg[p].video_id] = "ok"
         THEN /\ pc' = [pc EXCEPT ![p] = "grv_call"]
              /\ UNCHANGED result
         ELSE /\ pc' = [pc EXCEPT ![p] = "panicked"]
              /\ result' = [result EXCEPT ![p] =
                               Panic("get_rendered_video", meta[arg[p].video_id])]
    /\ UNCHANGED <<appVars, lock, arg, local, fsVars, pipelines, nextId, ghostVars, obsVars>>

\* OutputWhileEncoding of an encoder that writes to output_path itself
OutputWhileEncoding_InPlace(file, proj) == PartialFile(proj)

\* What is at output_path while the encoder runs: the encoder writes to a
\* temporary path, so the file at output_path is as it was.
OutputWhileEncoding(file, proj) == file

\* What is at output_path once the encoder has exited with success: the
\* temporary file renamed into place.
OutputAfterEncoding(file, proj) == CompleteFile(proj)

\* The sizes recording-meta.json and the project configurations hold.
Sizes == <<<<1920, 1080>>, <<1280, 720>>, <<640, 480>>>>

\* meta.display (width, height) of a directory's recording-meta.json
MetaDisplaySize(v) == Sizes[((v + 1) % 2) + 1]

\* meta.camera.map(|c| (c.width, c.height)).unwrap_or((0, 0))
MetaCameraSize(v) == IF v % 2 = 1 THEN Sizes[3] ELSE <<0, 0>>

\* project.output_size of a ProjectConfiguration
ProjectOutputSize(proj) == Sizes[(proj % 2) + 1]

\* let render_options = RenderOptions { output_path: output_path.clone(), ..,
\*     webcam_size: meta.camera.map(..).unwrap_or((0, 0)),
\*     output_size: (meta.display.width, meta.display.height) };
RenderOptionsOf(v, proj) ==
    [output_path |-> OutputPath(v),
     webcam_size |-> MetaCameraSize(v),
     output_size |-> MetaDisplaySize(v)]

\* render_video(render_options, project).await?  -- the encoder is launched
GrvRenderBegin(p) ==
    /\ pc[p] = "grv_call"
    /\ invoked' = [invoked EXCEPT ![p] = TRUE]
    /\ render_options' = [render_options EXCEPT ![p] =
                             RenderOptionsOf(arg[p].video_id, arg[p].project)]
    /\ output' = [output EXCEPT ![arg[p].video_id] = OutputWhileEncoding(@, arg[p].project)]
    /\ pc' = [pc EXCEPT ![p] = "grv_encoding"]
    /\ UNCHANGED <<appVars, lock, arg, local, result, dirExists, meta, thumb,
                   pipelines, nextId, entry, lastRender, prior, seen>>

\* render_video's Result: Ok when the encoder exits with success, Err when
\* a source is missing or corrupt or the encoder exits non-zero.
EncoderOutcomes == {"Ok", "Err"}

\* render_video(render_options, project).await?; Ok(output_path)
GrvRenderEnd(p) ==
    /\ pc[p] = "grv_encoding"
    /\ pc' = [pc EXCEPT ![p] = "grv_ret"]
    /\ \E o \in EncoderOutcomes :
          IF o = "Ok"
            THEN /\ output' = [output EXCEPT ![arg[p].video_id] =
                                  OutputAfterEncoding(@, arg[p].project)]
                 /\ result' = [result EXCEPT ![p] =
                                  OkPath("get_rendered_video", OutputPath(arg[p].video_id))]
            ELSE /\ UNCHANGED output
                 /\ result' = [result EXCEPT ![p] = Err("get_rendered_video", "RenderFailure")]
    /\ UNCHANGED <<appVars, lock, arg, local, dirExists, meta, thumb,
                   pipelines, nextId, ghostVars, obsVars>>

\* get_rendered_video returns its Result to the caller
GrvReturn(p) ==
    /\ pc[p] = "grv_ret"
    /\ lastRender' = [arg |-> arg[p], result |-> result[p]]
    /\ Idle(p)
    /\ UNCHANGED <<appVars, lock, fsVars, pipelines, nextId, entry>>

\* ------------------------------------------------------------ the system
\* Every command of every caller.
Next ==
    \E p \in Callers :
        \/ StartLock(p)
        \/ RecordingStart(p)
        \/ StartSet(p)
        \/ StartReturn(p)
        \/ StopLock(p)
        \/ StopClear(p)
        \/ RecordingStop(p)
        \/ StopThumbnail(p)
        \/ StopPush(p)
        \/ StopReturn(p)
        \/ \E options \in OptionInputs : SetRecordingOptions(p, options)
        \/ GetCurrentRecording(p)
        \/ GetPrevRecordings(p)
        \/ GetRecordingOptions(p)
        \/ QueryReturn(p)
        \/ \E v \in Dirs, proj \in Projects : GetRenderedVideo(p, v, proj)
        \/ GrvCheckOutput(p)
        \/ GrvReadMeta(p)
        \/ GrvRenderBegin(p)
        \/ GrvRenderEnd(p)
        \/ GrvReturn(p)
        \/ Unwind(p)

Spec == Init /\ [][Next]_vars

\* The recording commands alone: they are the only ones that take the lock
\* and that touch the App state.
NextSession ==
    \E p \in Callers :
        \/ StartLock(p)
        \/ RecordingStart(p)
        \/ StartSet(p)
        \/ StartReturn(p)
        \/ StopLock(p)
        \/ StopClear(p)
        \/ RecordingStop(p)
        \/ StopThumbnail(p)
        \/ StopPush(p)
        \/ StopReturn(p)
        \/ \E options \in OptionInputs : SetRecordingOptions(p, options)
        \/ GetCurrentRecording(p)
        \/ GetPrevRecordings(p)
        \/ GetRecordingOptions(p)
        \/ QueryReturn(p)
        \/ Unwind(p)

SpecSession == Init /\ [][NextSession]_vars

\* The render command alone, over the directories the earlier runs left: it
\* takes no lock and reads and writes only the files of its video_id.
NextRender ==
    \E p \in Callers :
        \/ \E v \in Dirs, proj \in Projects : GetRenderedVideo(p, v, proj)
        \/ GrvCheckOutput(p)
        \/ GrvReadMeta(p)
        \/ GrvRenderBegin(p)
        \/ GrvRenderEnd(p)
        \/ GrvReturn(p)
        \/ Unwind(p)

SpecRender == Init /\ [][NextRender]_vars

\* One window driving the recording commands and the queries while another
\* asks for rendered videos: the recorder and the editor side by side.
Recorder == "c1"
Editor == "c2"

NextMixed ==
    \/ StartLock(Recorder)
    \/ RecordingStart(Recorder)
    \/ StartSet(Recorder)
    \/ StartReturn(Recorder)
    \/ StopLock(Recorder)
    \/ StopClear(Recorder)
    \/ RecordingStop(Recorder)
    \/ StopThumbnail(Recorder)
    \/ StopPush(Recorder)
    \/ StopReturn(Recorder)
    \/ \E options \in OptionInputs : SetRecordingOptions(Recorder, options)
    \/ GetCurrentRecording(Recorder)
    \/ GetPrevRecordings(Recorder)
    \/ GetRecordingOptions(Recorder)
    \/ QueryReturn(Recorder)
    \/ \E v \in Dirs, proj \in Projects : GetRenderedVideo(Editor, v, proj)
    \/ GrvCheckOutput(Editor)
    \/ GrvReadMeta(Editor)
    \/ GrvRenderBegin(Editor)
    \/ GrvRenderEnd(Editor)
    \/ GrvReturn(Editor)
    \/ \E p \in Callers : Unwind(p)

SpecMixed == Init /\ [][NextMixed]_vars

\* ================================================================ claims
InStart(p) == lock = p /\ pc[p] \in {"start_locked", "start_set", "start_ret"}
InStop(p) == lock = p /\ pc[p] \in {"stop_locked", "stop_stopping", "stop_thumb",
                                    "stop_thumb_wait", "stop_push", "stop_ret"}

\* C1 (as claimed): a start_recording that finds a session active leaves the
\* slot and the archive as they were and answers with an "already recording"
\* error.
C1_SecondStartRejected ==
    \A p \in Callers :
        (InStart(p) /\ entry.cur.some) =>
            /\ current_recording = entry.cur
            /\ prev_recordings = entry.prev
            /\ pc[p] = "start_ret" => result[p].kind = "Err"

\* C2: a stop_recording that finds the slot empty answers
\* Err("Recording not in progress") straight after looking at the slot; the
\* slot stays empty, the archive is as it was, no pipeline is stopped and no
\* thumbnail extraction is run.
C2_StopWhenIdleIsNoOp ==
    \A p \in Callers :
        (InStop(p) /\ ~entry.cur.some) =>
            /\ pc[p] \in {"stop_locked", "stop_ret"}
            /\ ~current_recording.some
            /\ prev_recordings = entry.prev
            /\ pipelines = entry.pipelines
            /\ thumb = entry.thumb
            /\ pc[p] = "stop_ret" =>
                   result[p] = Err("stop_recording", "Recording not in progress")

\* C2 witness: a stop_recording that found the slot empty is returning.
C2_Witness ==
    \E p \in Callers :
        /\ InStop(p) /\ pc[p] = "stop_ret" /\ ~entry.cur.some
        /\ result[p].kind = "Err"
        /\ Len(prev_recordings) > 0

\* C3: when a stop_recording that found a session active returns, it answers
\* Ok, the session's pipelines have been stopped, the archive is the archive
\* it found with that session's directory appended as its last element, and
\* the slot is empty.
C3_StopArchivesActive ==
    \A p \in Callers :
        (InStop(p) /\ pc[p] = "stop_ret" /\ entry.cur.some) =>
            /\ result[p] = Ok("stop_recording")
            /\ pipelines[entry.cur.recording_dir] = "stopped"
            /\ prev_recordings = Append(entry.prev, entry.cur.recording_dir)
            /\ ~current_recording.some

\* C3 witness: a stop_recording of an active session is returning, and the
\* archive held a directory before it.
C3_Witness ==
    \E p \in Callers :
        /\ InStop(p) /\ pc[p] = "stop_ret" /\ entry.cur.some
        /\ Len(entry.prev) > 0

\* A finalized session: its directory exists and holds a readable
\* recording-meta.json.
Finalized(v) == dirExists[v] /\ meta[v] = "ok"

InRender(p) == pc[p] \in {"grv_out", "grv_meta", "grv_call", "grv_encoding", "grv_ret"}

\* C4 (as claimed): on a finalized session, a get_rendered_video call that
\* follows a returned call with identical arguments is a cache hit: it does
\* not invoke the encoder and returns the output path the first one returned.
C4_SecondCallAlwaysHits ==
    \A q \in Callers :
        (pc[q] = "grv_ret" /\ Finalized(arg[q].video_id) /\ prior[q].kind \in {"Ok", "Err"}) =>
            /\ ~invoked[q]
            /\ result[q].kind = "Ok"
            /\ result[q].path = OutputPath(arg[q].video_id)
            /\ result[q] = prior[q]

\* C4 (amended): a get_rendered_video call that follows a call with identical
\* arguments that returned Ok(path) is a cache hit: it never reaches the
\* metadata read or the encoder, and it returns Ok with the same path.
C4_RenderIdempotentAfterOk ==
    \A q \in Callers :
        (InRender(q) /\ prior[q].kind = "Ok") =>
            /\ pc[q] \in {"grv_out", "grv_ret"}
            /\ ~invoked[q]
            /\ pc[q] = "grv_ret" =>
                   /\ result[q] = prior[q]
                   /\ result[q].path = OutputPath(arg[q].video_id)

\* C4 witness: the second of two identical calls is returning its cache hit
\* while the first's answer was Ok, for a file the first call's encoder made.
C4_Witness ==
    \E q \in Callers :
        /\ pc[q] = "grv_ret"
        /\ prior[q].kind = "Ok"
        /\ result[q] = prior[q]
        /\ output[arg[q].video_id] = CompleteFile(2)

\* C5 (as claimed): a get_rendered_video call that finds recording-meta.json
\* missing or malformed returns an Err to its caller, does not panic, and
\* leaves no output/result.mp4.
C5_BadMetaIsRenderFailure ==
    \A p \in Callers :
        (InRender(p) \/ pc[p] = "panicked") /\ result[p].op = "get_rendered_video"
          /\ result[p].msg \in {"missing", "malformed"} =>
            /\ pc[p] = "grv_ret"
            /\ result[p].kind = "Err"
            /\ output[arg[p].video_id].st = "absent"

\* C6 (as claimed): a start_recording whose pipelines failed to start returns
\* an error, and the slot and the archive are as they were before the call.
C6_FailedStartReturnsError ==
    \A p \in Callers :
        (lock = p /\ pc[p] \in {"start_set", "start_ret", "panicked"}
           /\ local[p].some /\ pipelines[local[p].recording_dir] = "failed") =>
            /\ pc[p] # "panicked"
            /\ current_recording = entry.cur
            /\ prev_recordings = entry.prev
            /\ pc[p] = "start_ret" => result[p].kind = "Err"

\* The encoder invocations in flight for a video identifier.
InFlight(v) == {p \in Callers : pc[p] = "grv_encoding" /\ arg[p].video_id = v}

\* C7 (as claimed): at most one encoder invocation per video identifier is
\* in flight at any instant.
C7_RendersCoalesced == \A v \in Dirs : Cardinality(InFlight(v)) <= 1

\* C8: output/result.mp4 is absent or complete in every state, also while an
\* encoder runs and after one has failed, and every path get_rendered_video
\* returns is that of a complete file.
C8_OutputAbsentOrComplete ==
    /\ \A v \in Dirs : output[v].st \in {"absent", "complete"}
    /\ \A p \in Callers :
           (pc[p] = "grv_ret" /\ result[p].kind = "Ok") =>
               output[arg[p].video_id].st = "complete"

\* C8 witness: a render has failed, another one of the same video is running,
\* and there is no file at the output path.
C8_Witness ==
    \E p, q \in Callers :
        /\ pc[p] = "grv_ret" /\ result[p].msg = "RenderFailure"
        /\ pc[q] = "grv_encoding" /\ arg[q].video_id = arg[p].video_id
        /\ output[arg[p].video_id].st = "absent"

\* C9 (as claimed): stop_recording never panics, and a session that stop
\* took out of the slot is in the archive once that stop_recording is over.
C9_StopFailureStillArchives ==
    /\ \A p \in Callers : pc[p] = "panicked" => result[p].op # "stop_recording"
    /\ \A d \in Dirs :
           pipelines[d] = "stopped" =>
               \/ \E i \in 1..Len(prev_recordings) : prev_recordings[i] = d
               \/ \E p \in Callers : InStop(p) /\ local[p].recording_dir = d

\* C10 (as claimed): every session whose pipelines are running is the one in
\* the slot, or is held by the start_recording about to put it there or by
\* the stop_recording about to stop it.
C10_NoOrphanedSession ==
    \A d \in Dirs :
        pipelines[d] = "running" =>
            \/ current_recording.some /\ current_recording.recording_dir = d
            \/ \E p \in Callers :
                   /\ lock = p
                   /\ pc[p] \in {"start_set", "stop_stopping"}
                   /\ local[p].recording_dir = d


IsPrefix(s, t) == Len(s) <= Len(t) /\ \A i \in 1..Len(s) : s[i] = t[i]

\* C11: the archive is append-only: whatever step any command takes
\* (start_recording, stop_recording, set_recording_options,
\* get_rendered_video, the queries), the archive before the step is a prefix
\* of the archive after it; no entry is removed or reordered.
C11_ArchiveAppendOnly ==
    [][IsPrefix(prev_recordings, prev_recordings')]_vars

\* C11 witness: the archive found at startup has grown by a stopped session
\* while the editor has a render answered and the recorder a query answered.
C11_Witness ==
    /\ Len(prev_recordings) = 2
    /\ pc[Editor] = "grv_ret"
    /\ pc[Recorder] = "query_ret"

\* C12 (as claimed): every entry of the archive, the entries the startup scan
\* loaded included, is the directory of a finalized session: its
\* recording-meta.json exists.
C12_ArchiveEntriesFinalized ==
    \A i \in 1..Len(prev_recordings) : meta[prev_recordings[i]] # "missing"

\* the steps a stop_recording call can take up to and including its return
StopStep(p) ==
    \/ StopClear(p)
    \/ RecordingStop(p)
    \/ StopThumbnail(p)
    \/ StopPush(p)
    \/ StopReturn(p)

\* C13 (as claimed): a stop_recording of an active session is never left
\* waiting without bound: whatever the pipelines and the thumbnail process
\* do, the call has a next step to take until it has returned.
C13_StopIsBounded ==
    \A p \in Callers :
        (InStop(p) /\ entry.cur.some) => ENABLED StopStep(p)

\* C14 (as claimed): whatever dimensions recording-meta.json records and
\* whatever the project configuration, the output size requested of the
\* renderer is the project configuration's output_size.
C14_OutputSizeIsProjects ==
    \A p \in Callers :
        pc[p] = "grv_encoding" =>
            render_options[p].output_size = ProjectOutputSize(arg[p].project)

\* C15: within a stop_recording of an active session the thumbnail
\* extraction starts only once the stop of the session's pipelines has
\* completed, and the directory is appended to the archive only once both
\* have happened; no directory is in the archive while the stop of its
\* pipelines is pending.
C15_StopStepsOrdered ==
    /\ \A p \in Callers :
          (InStop(p) /\ pc[p] \in {"stop_thumb", "stop_thumb_wait", "stop_push"}) =>
              pipelines[local[p].recording_dir] = "stopped"
    /\ \A p \in Callers :
          (InStop(p) /\ pc[p] = "stop_push") => thumb[local[p].recording_dir]
    /\ \A d \in Dirs : thumb[d] => pipelines[d] = "stopped"
    /\ \A p \in Callers :
          (InStop(p) /\ pc[p] \in {"stop_stopping", "stop_thumb", "stop_thumb_wait",
                                   "stop_push"}) =>
              \A i \in 1..Len(prev_recordings) :
                  prev_recordings[i] # local[p].recording_dir
    /\ \A i \in 1..Len(prev_recordings) :
          LET d == prev_recordings[i]
          IN  \/ pipelines[d] = "none"
              \/ pipelines[d] = "stopped" /\ thumb[d]

\* C15 witness: a stop_recording of an active session has appended the
\* directory, its pipelines stopped and its thumbnail extracted.
C15_Witness ==
    \E p \in Callers :
        /\ InStop(p) /\ pc[p] = "stop_ret" /\ entry.cur.some
        /\ thumb[entry.cur.recording_dir]
        /\ pipelines[entry.cur.recording_dir] = "stopped"
        /\ prev_recordings[Len(prev_recordings)] = entry.cur.recording_dir

\* the caller is between the first and the last line of start_recording or
\* stop_recording
InCritical(p) ==
    \/ pc[p] \in {"start_locked", "start_set", "start_ret", "stop_locked",
                  "stop_stopping", "stop_thumb", "stop_thumb_wait", "stop_push",
                  "stop_ret"}
    \/ pc[p] = "panicked" /\ result[p].op \in {"start_recording", "stop_recording"}

\* the slot and the archive a call has produced so far, from the slot and
\* the archive it found when it was granted the guard
SerialSlot(p) ==
    CASE pc[p] \in {"start_locked", "start_set", "stop_locked"} -> entry.cur
      [] pc[p] = "start_ret" -> local[p]
      [] pc[p] = "panicked" /\ result[p].op = "start_recording" -> entry.cur
      [] OTHER -> NoneRecording

SerialArchive(p) ==
    IF pc[p] = "stop_ret" /\ entry.cur.some
      THEN Append(entry.prev, entry.cur.recording_dir)
      ELSE entry.prev

\* C16: start_recording and stop_recording are mutually exclusive: a call
\* holds the write guard from its first line to its return, no two calls are
\* inside at once, the slot and the archive are changed only by the call
\* inside, and what it leaves is what the call alone does to the slot and the
\* archive it found: the calls take effect in the serial order of their
\* guards.
C16_StartStopSerial ==
    /\ [](\A p \in Callers : InCritical(p) =>
             /\ lock = p
             /\ \A q \in Callers : InCritical(q) => q = p
             /\ current_recording = SerialSlot(p)
             /\ prev_recordings = SerialArchive(p))
    /\ [][<<current_recording, prev_recordings>>' # <<current_recording, prev_recordings>>
            => \E p \in Callers : InCritical(p) /\ lock = p /\ pc'[p] # pc[p]]_vars

\* C16 witness: a stop_recording of an active session is inside while the
\* other caller's start_recording waits for the guard.
C16_Witness ==
    \E p, q \in Callers :
        /\ p # q
        /\ InStop(p) /\ pc[p] = "stop_thumb" /\ entry.cur.some
        /\ pc[q] = "idle" /\ nextId <= MaxDirs
        /\ ~ENABLED StartLock(q)

\* the steps a get_rendered_video call takes after its first
RenderStep(p) ==
    \/ GrvCheckOutput(p)
    \/ GrvReadMeta(p)
    \/ GrvRenderBegin(p)
    \/ GrvRenderEnd(p)
    \/ GrvReturn(p)

\* C17: a render request never waits on the recording state: whoever holds
\* the write guard, a get_rendered_video can be started for any directory
\* and a started one can take its next step up to its return; and no step of
\* a get_rendered_video changes the slot or the archive.
C17_RenderNeverWaits ==
    /\ [](\A p \in Callers :
             /\ pc[p] = "idle" =>
                   \A v \in Dirs, proj \in Projects : ENABLED GetRenderedVideo(p, v, proj)
             /\ InRender(p) => ENABLED RenderStep(p))
    /\ [][\A p \in Callers :
             (pc'[p] # pc[p] /\ (InRender(p) \/ InRender(p)')) =>
                 UNCHANGED <<current_recording, prev_recordings>>]_vars

\* C17 witness: a render of a finalized session's directory has run the
\* encoder and is returning Ok while a stop_recording of another directory
\* is inside, holding the write guard.
C17_Witness ==
    /\ InStop(Recorder) /\ local[Recorder].some
    /\ pc[Editor] = "grv_ret" /\ invoked[Editor] /\ result[Editor].kind = "Ok"
    /\ Finalized(arg[Editor].video_id)
    /\ arg[Editor].video_id # local[Recorder].recording_dir

\* C18: the render cache is keyed on the existence of output/result.mp4
\* alone: a get_rendered_video that finds the file there answers with its
\* path as its next step, whatever the project configuration and whatever
\* the metadata file is; it does not read the metadata, does not invoke the
\* encoder and leaves the file as it is.
C18_CacheKeyedOnExistence ==
    [][\A p \in Callers :
          (/\ pc[p] = "grv_out"
           /\ output[arg[p].video_id].st # "absent"
           /\ pc'[p] # pc[p]) =>
              /\ pc'[p] = "grv_ret"
              /\ result'[p] = OkPath("get_rendered_video", OutputPath(arg[p].video_id))
              /\ ~invoked'[p]
              /\ render_options'[p] = NoRenderOptions
              /\ output' = output]_vars

\* C18 witness: a call is answered from the cache with a project
\* configuration other than the one the file was rendered with.
C18_Witness ==
    \E p \in Callers :
        /\ pc[p] = "grv_ret" /\ result[p].kind = "Ok" /\ ~invoked[p]
        /\ output[arg[p].video_id].st = "complete"
        /\ output[arg[p].video_id].by # arg[p].project

C20_ArchivedAtMostOnce ==
    /\ \A i, j \in 1..Len(prev_recordings) :
          prev_recordings[i] = prev_recordings[j] => i = j
    /\ \A p \in Callers :
          (InStop(p) /\ pc[p] # "stop_locked") => ~current_recording.some
    /\ \A p \in Callers :
          (InStop(p) /\ entry.cur.some) =>
              \A i \in 1..Len(entry.prev) : entry.prev[i] # entry.cur.recording_dir
    /\ \A p \in Callers :
          (InStop(p) /\ pc[p] = "stop_ret" /\ ~entry.cur.some) =>
              /\ result[p] = Err("stop_recording", "Recording not in progress")
              /\ prev_recordings = entry.prev

\* C20 witness: a second stop_recording is answered "not in progress" after
\* the first archived the session as the last entry of the archive.
C20_Witness ==
    \E p \in Callers :
        /\ InStop(p) /\ pc[p] = "stop_ret" /\ ~entry.cur.some
        /\ result[p].msg = "Recording not in progress"
        /\ Len(prev_recordings) > 0
        /\ pipelines[prev_recordings[Len(prev_recordings)]] = "stopped"
        /\ thumb[prev_recordings[Len(prev_recordings)]]

\* a stop_recording has taken a session out of the slot and stopped it, and
\* its directory is not in the archive
StoppedUnarchived ==
    /\ ~current_recording.some
    /\ \E d \in Dirs :
          /\ pipelines[d] = "stopped"
          /\ \A i \in 1..Len(prev_recordings) : prev_recordings[i] # d

\* C21 (as claimed): stopping is atomic to observers: no
\* get_current_recording and no get_prev_recordings reads the App in the
\* intermediate state of a stop_recording, the slot already empty and the
\* session's directory not yet in the archive.
C21_StopAtomicToObservers ==
    [][\A p \in Callers :
          (/\ pc[p] = "idle" /\ pc'[p] = "query_ret"
           /\ result'[p].op \in {"get_current_recording", "get_prev_recordings"}) =>
              ~StoppedUnarchived]_vars

\* C22: a get_rendered_video for a video_id whose directory does not exist
\* answers with an error as its first step and has no effect: it does not go
\* on to read the metadata, builds no RenderOptions, does not invoke the
\* encoder, and creates no directory and no file; nor does its return.
C22_MissingDirIsErrorOnly ==
    /\ [][\A p \in Callers :
             (/\ pc[p] = "idle" /\ InRender(p)'
              /\ ~dirExists[arg'[p].video_id]) =>
                 /\ pc'[p] = "grv_ret"
                 /\ result'[p] = Err("get_rendered_video", "Video directory does not exist")
                 /\ UNCHANGED <<fsVars, appVars, invoked, render_options>>]_vars
    /\ [](\A p \in Callers :
             (pc[p] = "grv_ret" /\ result[p].msg = "Video directory does not exist") =>
                 /\ ~invoked[p]
                 /\ render_options[p] = NoRenderOptions)
    /\ [][\A p \in Callers :
             (/\ pc[p] = "grv_ret" /\ pc'[p] # pc[p]
              /\ result[p].msg = "Video directory does not exist") =>
                 UNCHANGED <<fsVars, appVars>>]_vars

\* C22 witness: a call for a directory that does not exist is returning its
\* error, the directory still absent and nothing at its output path.
C22_Witness ==
    \E p \in Callers :
        /\ pc[p] = "grv_ret" /\ result[p].kind = "Err"
        /\ result[p].msg = "Video directory does not exist"
        /\ ~dirExists[arg[p].video_id]
        /\ output[arg[p].video_id] = AbsentFile
====
